---- MODULE Spec2Model ----
(***************************************************************************)
(* GitHub follower notification agent (src/follower_agent.py).             *)
(*                                                                         *)
(* One tick is GitHubFollowerAgent.run_once -> check_for_new_followers:    *)
(* the paged fetch of the current followers, the load of the snapshot      *)
(* file, the set difference, the notification and the save.  The model     *)
(* follows the tick one statement group at a time (pc), so that the        *)
(* state between two steps of a tick is visible.                           *)
(*                                                                         *)
(* A handle (a GitHub login, a Python str) is a sequence of character      *)
(* codes; Python compares str values lexicographically by code point.      *)
(***************************************************************************)
EXTENDS Integers, Sequences, FiniteSets, TLC

\* ---------------------------------------------------------------- bounds

\* Number of distinct logins that exist in the modelled world.
MaxHandles == 2

\* Logins per page served by the followers endpoint.  The agent asks for
\* per_page=100 (follower_agent.py:60); the model scales the page down so
\* that a fetch of MaxHandles logins spans several requests.
PerPage == 1

\* ------------------------------------------------------- handles, orders

\* The i-th login of the modelled world: "a", "aa", "b", "ba", "c", ...
\* as character codes, so that a login can be a proper prefix of another.
Handle(i) == IF i % 2 = 1 THEN << (i + 1) \div 2 >> ELSE << i \div 2, 1 >>

Handles == { Handle(i) : i \in 1..MaxHandles }

Range(s) == { s[i] : i \in 1..Len(s) }

\* Python's str.__lt__: code point by code point, a proper prefix is smaller.
RECURSIVE LexLess(_, _)
LexLess(a, b) ==
    IF a = <<>> THEN b # <<>>
    ELSE IF b = <<>> THEN FALSE
    ELSE IF Head(a) # Head(b) THEN Head(a) < Head(b)
    ELSE LexLess(Tail(a), Tail(b))

\* A plausible slip: descending order.
RECURSIVE SortedDescending(_)
SortedDescending(S) ==
    IF S = {} THEN <<>>
    ELSE LET m == CHOOSE x \in S : \A y \in S \ {x} : LexLess(y, x)
         IN  <<m>> \o SortedDescending(S \ {m})

\* sorted(list(new_followers)), follower_agent.py:207.
RECURSIVE Sorted(_)
Sorted(S) ==
    IF S = {} THEN <<>>
    ELSE LET m == CHOOSE x \in S : \A y \in S \ {x} : LexLess(x, y)
         IN  <<m>> \o Sorted(S \ {m})

\* list(followers), follower_agent.py:98: the elements of the set once each,
\* in the set's iteration order, which the program does not control.
ListsOf(S) ==
    { s \in [1..Cardinality(S) -> S] : Range(s) = S }

\* ---------------------------------------------------- the snapshot file

\* followers.json (config.py:30) does not exist.
Absent == [kind |-> "absent", followers |-> <<>>]

\* followers.json holds text json.load rejects: the empty file that
\* open(..., 'w') leaves, or the prefix of a document json.dump was writing.
Corrupt == [kind |-> "corrupt", followers |-> <<>>]

\* followers.json holds {"followers": [...], "last_updated": ...}.
Valid(seq) == [kind |-> "valid", followers |-> seq]

\* A plausible slip: the document is written under another key than the one
\* load_previous_followers reads, so data.get('followers', []) finds nothing.
WrittenUnderWrongKey(F) == { Valid(<<>>) }

\* The documents save_followers(F) can leave when the write succeeds,
\* follower_agent.py:97-104.
Written(F) == { Valid(s) : s \in ListsOf(F) }

\* A plausible slip: the JSON list is not turned back into the whole set.
LoadedFirstOnly(f) ==
    IF f.kind = "valid" /\ f.followers # <<>> THEN { Head(f.followers) } ELSE {}

\* What load_previous_followers returns for a file it can read,
\* follower_agent.py:84-93: set(data.get('followers', [])) for a document,
\* set() when the file is missing (FileNotFoundError) and set() when it does
\* not parse (json.JSONDecodeError).
Loaded(f) ==
    IF f.kind = "valid" THEN Range(f.followers) ELSE {}

\* A plausible slip: the other first-run policy, nothing is new against an
\* empty baseline.
DiffQuietOnEmptyBaseline(cur, prev) == IF prev = {} THEN {} ELSE cur \ prev

\* A plausible slip: the symmetric difference, which also reports unfollows.
DiffSymmetric(cur, prev) == (cur \ prev) \cup (prev \ cur)

\* new_followers = current_followers - previous_followers, follower_agent.py:204.
Diff(cur, prev) == cur \ prev

\* ------------------------------------------------ the followers endpoint

\* The response to GET /users/<name>/followers?page=p&per_page=PerPage when
\* the account's followers are R: the p-th slice of the endpoint's listing.
ServerPage(R, p) ==
    LET all == Sorted(R)
    IN  { all[i] : i \in { j \in 1..Len(all) :
                           (p - 1) * PerPage < j /\ j <= p * PerPage } }

\* ---------------------------------------------------------- configuration

\* The settings Config.validate looks at (config.py:9-23); a setting is
\* present when its environment variable holds a non-empty string.
Settings == { "GITHUB_TOKEN", "GITHUB_USERNAME", "EMAIL_FROM",
              "EMAIL_PASSWORD", "EMAIL_TO", "WEBHOOK_URL" }

\* Config.NOTIFICATION_METHOD: Config.validate (config.py:44-50) checks the
\* settings of 'email' and of 'webhook' and accepts any other value as it is.
Methods == {"email", "webhook", "other"}

\* The settings Config.validate asks for when the method is m.
Needed(m) ==
    { "GITHUB_TOKEN", "GITHUB_USERNAME" }
    \cup (IF m = "email" THEN { "EMAIL_FROM", "EMAIL_PASSWORD", "EMAIL_TO" }
          ELSE IF m = "webhook" THEN { "WEBHOOK_URL" } ELSE {})

\* The environments the model starts the program in, for method m: a
\* complete one (for email the environment of test_agent.py:15-24, which sets
\* no WEBHOOK_URL; otherwise every setting), and the complete one with one of
\* the settings the method needs taken away.
Environments(m) ==
    LET complete == IF m = "email" THEN Settings \ {"WEBHOOK_URL"}
                    ELSE Settings
    IN  { complete } \cup { complete \ {k} : k \in Needed(m) }

\* A plausible slip: 'and' for 'or' in the email check, so that the email
\* configuration counts as incomplete only when all three settings are missing.
ValidationErrorsEmailAnd(present, m) ==
    (IF "GITHUB_TOKEN" \notin present THEN {"GITHUB_TOKEN is required"} ELSE {})
    \cup
    (IF "GITHUB_USERNAME" \notin present
     THEN {"GITHUB_USERNAME is required"} ELSE {})
    \cup
    (IF m = "email"
     THEN IF "EMAIL_FROM" \notin present /\ "EMAIL_PASSWORD" \notin present
             /\ "EMAIL_TO" \notin present
          THEN {"Email configuration incomplete"} ELSE {}
     ELSE IF m = "webhook"
     THEN IF "WEBHOOK_URL" \notin present
          THEN {"WEBHOOK_URL is required for webhook notifications"} ELSE {}
     ELSE {})

\* The errors list of Config.validate, config.py:36-50.
ValidationErrors(present, m) ==
    (IF "GITHUB_TOKEN" \notin present THEN {"GITHUB_TOKEN is required"} ELSE {})
    \cup
    (IF "GITHUB_USERNAME" \notin present
     THEN {"GITHUB_USERNAME is required"} ELSE {})
    \cup
    (IF m = "email"
     THEN IF "EMAIL_FROM" \notin present \/ "EMAIL_PASSWORD" \notin present
             \/ "EMAIL_TO" \notin present
          THEN {"Email configuration incomplete"} ELSE {}
     ELSE IF m = "webhook"
     THEN IF "WEBHOOK_URL" \notin present
          THEN {"WEBHOOK_URL is required for webhook notifications"} ELSE {}
     ELSE {})

\* Config.validate returns True (config.py:55) instead of raising ValueError
\* (config.py:52-53).
Validates(present, m) == ValidationErrors(present, m) = {}

\* ------------------------------------------------------------ the process

\* --once, --test, or neither (run_continuously), follower_agent.py:248-276.
Modes == {"once", "forever", "test"}

\* The positions inside a tick.
TickPcs == {"fetch", "load", "diff", "notify", "save", "done"}

NoExit == [cause |-> "none", status |-> 0, at |-> "none"]

\* exit(main()), follower_agent.py:280: the process exit status is the
\* returned integer, of which the operating system keeps the low 8 bits.
ExitStatus(n) == n % 256

\* How the process ended: why, its exit status, and where it was.
Exited(cause, status, at) == [cause |-> cause, status |-> status, at |-> at]

\* A plausible slip: the self-test runs a whole tick (run_once) instead of
\* the fetch alone.
AfterFetchAlwaysTick(m) == "load"

\* Where get_current_followers returns to: check_for_new_followers goes on
\* with the load (follower_agent.py:200-201); the self-test prints the count
\* and main returns 0 (follower_agent.py:260-267).
AfterFetch(m) == IF m = "test" THEN "exited" ELSE "load"

\* A plausible slip: each page replaces what was collected instead of being
\* added to it.
CollectedLastPageOnly(acc, data) == data

\* for follower in data: followers.add(follower['login']),
\* follower_agent.py:70-71.
Collected(acc, data) == acc \cup data

\* A plausible slip: run_once does not catch the error, which reaches
\* run_continuously's "except Exception" (logged, the loop is left, main
\* returns 0) or, with --once, leaves main.
OnTickErrorPropagating(m) ==
    [pc |-> "exited",
     exit |-> Exited("error", IF m = "forever" THEN 0 ELSE 1, "load")]

\* An exception leaves check_for_new_followers: run_once catches it, logs
\* it and returns 0 (follower_agent.py:223-225).
OnTickError(m) == [pc |-> "done", exit |-> NoExit]

\* ------------------------------------------------------------------ state

VARIABLES
    remote,             \* the account's followers at the endpoint
    settings,           \* the settings present in the environment
    method,             \* Config.NOTIFICATION_METHOD
    file,               \* followers.json
    mode,               \* how the running process was started
    exit,               \* how the last process ended
    pc,                 \* position of the agent
    page,               \* get_current_followers: page
    followers,          \* get_current_followers: followers
    current_followers,  \* check_for_new_followers: current_followers
    previous_followers, \* check_for_new_followers: previous_followers
    new_followers,      \* check_for_new_followers: new_followers
    ret,                \* what run_once returned
    raised,             \* an exception left check_for_new_followers
    \* what happened in the tick in progress (or just finished)
    fetchFailed,        \* a request of the fetch raised RequestException
    fetchLog,           \* the requests of the fetch in progress or just
                        \* returned: page asked, whether a response came,
                        \* the logins in it
    steps,              \* the steps of the tick taken so far, in order
    loadSaw,            \* what load_previous_followers found
    notifyCalls,        \* arguments of the calls of notify_new_followers
    emailSends,         \* arguments of the calls of send_email_notification
    webhookSends,       \* arguments of the calls of send_webhook_notification
    sendFailed,         \* the transport raised inside send_*_notification
    saveCalls,          \* arguments of the calls of save_followers
    saveResult,         \* "none", "ok", "open" (open failed), "partial"
    fileBefore,         \* followers.json when the tick started
    \* across ticks: a run keeps one of these records (watch), the others
    \* stay as they start
    watch,              \* which record the run keeps
    lastGood,           \* the set of the most recent tick whose fetch succeeded
    lastSaved,          \* the argument of the most recent save_followers,
                        \* if its write succeeded
    lastOk,             \* the last finished tick fetched completely and saved
    prevOk,             \* lastOk of the tick before the one in progress, and
                        \* the endpoint unchanged since that tick started
    changed,            \* the endpoint changed since the last tick started
    lastBatch           \* the batch the tick before handed to the notifier,
                        \* whether its dispatch failed, and whether that
                        \* tick's save wrote the snapshot

locals == << page, followers, current_followers, previous_followers,
             new_followers, ret, raised >>

history == << fetchFailed, fetchLog, steps, loadSaw, notifyCalls, emailSends,
              webhookSends, sendFailed, saveCalls, saveResult, fileBefore >>

environment == << remote, settings, method >>

process == << mode, exit >>

across == << watch, lastGood, lastSaved, lastOk, prevOk, changed, lastBatch >>

vars == << environment, file, process, pc, locals, history, across >>

NoSet == [some |-> FALSE, set |-> {}]

NoBatch == [batch |-> {}, failed |-> FALSE, saved |-> FALSE]

\* The records across ticks: the last successful fetch ("fetched"), the last
\* successful save ("saved"), two ticks on an unchanged endpoint ("repeat"),
\* the batch of the tick before ("batch").
Watches == {"fetched", "saved", "repeat", "batch"}

LocalsInit ==
    /\ page = 1
    /\ followers = {}
    /\ current_followers = {}
    /\ previous_followers = {}
    /\ new_followers = {}
    /\ ret = 0
    /\ raised = FALSE

HistoryInit ==
    /\ fetchFailed = FALSE
    /\ fetchLog = <<>>
    /\ steps = <<>>
    /\ loadSaw = "none"
    /\ notifyCalls = <<>>
    /\ emailSends = <<>>
    /\ webhookSends = <<>>
    /\ sendFailed = FALSE
    /\ saveCalls = <<>>
    /\ saveResult = "none"
    /\ fileBefore = Absent

\* The program is about to be started, on a machine where it never ran: no
\* snapshot file yet.
Init ==
    /\ remote \in SUBSET Handles
    /\ method \in Methods
    /\ settings \in Environments(method)
    /\ file = Absent
    /\ mode = "none"
    /\ exit = NoExit
    /\ pc = "start"
    /\ LocalsInit
    /\ HistoryInit
    /\ watch \in Watches
    /\ lastGood = NoSet
    /\ lastSaved = NoSet
    /\ lastOk = FALSE
    /\ prevOk = FALSE
    /\ changed = FALSE
    /\ lastBatch = NoBatch

\* The locals and the record of the tick as they are before a tick.
ClearTick ==
    /\ page' = 1
    /\ followers' = {}
    /\ current_followers' = {}
    /\ previous_followers' = {}
    /\ new_followers' = {}
    /\ ret' = 0
    /\ raised' = FALSE
    /\ fetchFailed' = FALSE
    /\ fetchLog' = <<>>
    /\ loadSaw' = "none"
    /\ notifyCalls' = <<>>
    /\ emailSends' = <<>>
    /\ webhookSends' = <<>>
    /\ sendFailed' = FALSE
    /\ saveCalls' = <<>>
    /\ saveResult' = "none"

\* What the tick that ends leaves for the next one to be compared with.
CloseTick ==
    /\ lastOk' = (watch = "repeat" /\ ~raised /\ ~fetchFailed
                                   /\ saveResult = "ok")
    /\ lastBatch' = IF watch = "batch"
                    THEN [batch  |-> IF notifyCalls = <<>> THEN {}
                                     ELSE Range(notifyCalls[1]),
                          failed |-> sendFailed,
                          saved  |-> saveResult = "ok"]
                    ELSE lastBatch
    /\ prevOk' = FALSE

\* ---------------------------------------------------------------- actions

\* Somebody follows or unfollows the account.  The agent reads the endpoint
\* only inside get_current_followers, so a change at any other moment of a
\* tick is the same, to the agent, as one made before its next fetch.
RemoteChange ==
    /\ pc \in {"start", "idle", "fetch"}
    /\ \E h \in Handles :
        remote' = IF h \in remote THEN remote \ {h} ELSE remote \cup {h}
    /\ changed' = (watch = "repeat")
    /\ UNCHANGED << settings, method, file, process, pc, locals, history,
                    watch, lastGood, lastSaved, lastOk, prevOk, lastBatch >>

\* main: the arguments are parsed and the agent is constructed, which
\* validates the configuration (with --test, Config.validate is also called
\* first, inside the try).  A ValueError ends the process: with --test main
\* prints it and returns 1, otherwise it leaves main and Python exits with 1.
Startup ==
    /\ pc = "start"
    /\ \E m \in Modes :
        /\ mode' = m
        /\ IF Validates(settings, method)
           THEN /\ pc' = IF m = "test" THEN "fetch" ELSE "idle"
                /\ exit' = NoExit
           ELSE /\ pc' = "exited"
                /\ exit' = Exited("config", 1, "start")
    /\ UNCHANGED << environment, file, locals, history, across >>

\* run_once calls check_for_new_followers, which calls
\* get_current_followers: followers = set(), page = 1.
TickStart ==
    /\ pc = "idle"
    /\ pc' = "fetch"
    /\ ClearTick
    /\ steps' = << "fetch" >>
    /\ fileBefore' = file
    /\ prevOk' = (lastOk /\ ~changed)
    /\ changed' = FALSE
    /\ UNCHANGED << environment, file, process, watch, lastGood, lastSaved,
                    lastOk, lastBatch >>

\* One iteration of the while loop of get_current_followers.  When the
\* function returns, its locals (page, followers) are gone.
FetchPage ==
    /\ pc = "fetch"
    /\ \/ \* requests.get or raise_for_status raised: log, break, return
          \* what has been collected so far.
          /\ fetchFailed' = TRUE
          /\ fetchLog' = Append(fetchLog, [page |-> page, ok |-> FALSE,
                                           data |-> {}])
          /\ current_followers' = followers
          /\ pc' = AfterFetch(mode)
          /\ page' = 1
          /\ followers' = {}
          /\ UNCHANGED lastGood
       \/ \* an empty page: break, return followers.
          /\ ServerPage(remote, page) = {}
          /\ fetchLog' = Append(fetchLog, [page |-> page, ok |-> TRUE,
                                           data |-> {}])
          /\ current_followers' = followers
          /\ lastGood' = IF mode = "test" \/ watch # "fetched" THEN lastGood
                         ELSE [some |-> TRUE, set |-> followers]
          /\ pc' = AfterFetch(mode)
          /\ page' = 1
          /\ followers' = {}
          /\ UNCHANGED fetchFailed
       \/ \* a page of logins: add them, ask for the next page.
          /\ ServerPage(remote, page) # {}
          /\ fetchLog' = Append(fetchLog, [page |-> page, ok |-> TRUE,
                                           data |-> ServerPage(remote, page)])
          /\ followers' = Collected(followers, ServerPage(remote, page))
          /\ page' = page + 1
          /\ UNCHANGED << current_followers, pc, fetchFailed, lastGood >>
    /\ exit' = IF pc' = "exited" THEN Exited("returned", 0, "test") ELSE exit
    /\ UNCHANGED << environment, file, mode, previous_followers, new_followers,
                    ret, raised, steps, loadSaw, notifyCalls, emailSends,
                    webhookSends, sendFailed, saveCalls, saveResult, fileBefore,
                    watch, lastSaved, lastOk, prevOk, changed, lastBatch >>

\* previous_followers = self.load_previous_followers().
Load ==
    /\ pc = "load"
    /\ steps' = Append(steps, "load")
    /\ fetchLog' = <<>>
    /\ \/ \* the file is read (or is missing, or does not parse).
          /\ previous_followers' = Loaded(file)
          /\ loadSaw' = file.kind
          /\ pc' = "diff"
          /\ UNCHANGED << ret, raised, exit >>
       \/ \* the file exists and open() or read() raised an OSError, which
          \* load_previous_followers does not catch: run_once catches it.
          /\ file.kind # "absent"
          /\ loadSaw' = "unreadable"
          /\ raised' = TRUE
          /\ ret' = 0
          /\ pc' = OnTickError(mode).pc
          /\ exit' = OnTickError(mode).exit
          /\ UNCHANGED previous_followers
    /\ UNCHANGED << environment, file, mode, page, followers, current_followers,
                    new_followers, fetchFailed, notifyCalls,
                    emailSends, webhookSends, sendFailed, saveCalls, saveResult,
                    fileBefore, across >>

\* new_followers = current - previous; if new_followers: ... else: log.
DiffStep ==
    /\ pc = "diff"
    /\ steps' = Append(steps, "diff")
    /\ new_followers' = Diff(current_followers, previous_followers)
    /\ pc' = IF Diff(current_followers, previous_followers) # {}
             THEN "notify" ELSE "save"
    /\ UNCHANGED << environment, file, process, page, followers,
                    current_followers, previous_followers, ret, raised,
                    fetchFailed, fetchLog, loadSaw, notifyCalls, emailSends,
                    webhookSends, sendFailed, saveCalls, saveResult, fileBefore,
                    across >>

\* A plausible slip: a failed send is tried again.
AfterSendRetrying(ok) == IF ok THEN "save" ELSE "notify"

\* Where the tick goes on after send_*_notification: both wrap their whole
\* body in try/except Exception and log, so the caller never sees a failure.
\* A plausible slip: the failure of the transport leaves send_*_notification
\* and ends the tick in run_once's handler.
AfterSendAborting(ok) == IF ok THEN "save" ELSE "done"

AfterSend(ok) == "save"

\* self.notify_new_followers(sorted(list(new_followers))), with
\* notify_new_followers and the send_*_notification it selects.
Notify ==
    /\ pc = "notify"
    /\ steps' = Append(steps, "notify")
    /\ LET batch == Sorted(new_followers) IN
       /\ notifyCalls' = Append(notifyCalls, batch)
       /\ IF batch = <<>>
          THEN \* if not new_followers: return
               /\ pc' = "save"
               /\ UNCHANGED << emailSends, webhookSends, sendFailed >>
          ELSE \/ /\ method = "email"
                  /\ emailSends' = Append(emailSends, batch)
                  /\ \E ok \in BOOLEAN :
                      /\ sendFailed' = ~ok
                      /\ pc' = AfterSend(ok)
                  /\ UNCHANGED webhookSends
               \/ /\ method = "webhook"
                  /\ webhookSends' = Append(webhookSends, batch)
                  /\ \E ok \in BOOLEAN :
                      /\ sendFailed' = ~ok
                      /\ pc' = AfterSend(ok)
                  /\ UNCHANGED emailSends
               \/ \* Unknown notification method: a warning, nothing is sent.
                  /\ method \notin {"email", "webhook"}
                  /\ pc' = "save"
                  /\ UNCHANGED << emailSends, webhookSends, sendFailed >>
    /\ UNCHANGED << environment, file, process, locals, fetchFailed, fetchLog,
                    loadSaw, saveCalls, saveResult, fileBefore, across >>

\* self.save_followers(current_followers); return len(new_followers); and
\* run_once returns that count.
Save ==
    /\ pc = "save"
    /\ steps' = Append(steps, "save")
    /\ saveCalls' = Append(saveCalls, current_followers)
    /\ \/ \* the document is written.
          /\ file' \in Written(current_followers)
          /\ saveResult' = "ok"
          /\ lastSaved' = IF watch = "saved"
                          THEN [some |-> TRUE, set |-> current_followers]
                          ELSE lastSaved
       \/ \* open(..., 'w') raised: the file is as it was; logged.
          /\ file' = file
          /\ saveResult' = "open"
          /\ lastSaved' = IF watch = "saved" THEN NoSet ELSE lastSaved
       \/ \* open(..., 'w') truncated the file and json.dump raised before
          \* the document was complete; logged.
          /\ file' = Corrupt
          /\ saveResult' = "partial"
          /\ lastSaved' = IF watch = "saved" THEN NoSet ELSE lastSaved
    /\ ret' = Cardinality(new_followers)
    /\ pc' = "done"
    /\ UNCHANGED << environment, process, page, followers, current_followers,
                    previous_followers, new_followers, raised, fetchFailed,
                    fetchLog, loadSaw, notifyCalls, emailSends, webhookSends,
                    sendFailed, fileBefore, watch, lastGood, lastOk, prevOk,
                    changed, lastBatch >>

\* run_once has returned in the loop of run_continuously, which sleeps
\* Config.CHECK_INTERVAL.
Sleep ==
    /\ pc = "done"
    /\ mode = "forever"
    /\ pc' = "idle"
    /\ CloseTick
    /\ ClearTick
    /\ steps' = <<>>
    /\ fileBefore' = Absent
    /\ UNCHANGED << environment, file, process, watch, lastGood, lastSaved,
                    changed >>

\* --once: main returns what run_once returned, and exit(main()) makes it the
\* exit status of the process (follower_agent.py:272-273, 280).
ExitOnce ==
    /\ pc = "done"
    /\ mode = "once"
    /\ pc' = "exited"
    /\ exit' = Exited("returned", ExitStatus(ret), "done")
    /\ CloseTick
    /\ ClearTick
    /\ steps' = <<>>
    /\ fileBefore' = Absent
    /\ UNCHANGED << environment, file, mode, watch, lastGood, lastSaved,
                    changed >>

\* Ctrl-C (SIGINT) while run_continuously runs: Python raises
\* KeyboardInterrupt in the statement being executed, in time.sleep or
\* anywhere in the tick.  KeyboardInterrupt is no Exception, so no
\* "except Exception" of the tick catches it; "except KeyboardInterrupt" of
\* run_continuously does, and main returns 0.  The statement group at pc has
\* not run, except that an interrupted save_followers may have truncated
\* the file.
Interrupt ==
    /\ mode = "forever"
    /\ pc \in TickPcs \cup {"idle"}
    /\ pc' = "exited"
    /\ exit' = Exited("interrupt", 0, pc)
    /\ \/ UNCHANGED << file, lastSaved >>
       \/ /\ pc = "save"
          /\ file' = Corrupt
          /\ lastSaved' = IF watch = "saved" THEN NoSet ELSE lastSaved
    /\ IF pc \in TickPcs
       THEN CloseTick
       ELSE UNCHANGED << lastOk, lastBatch, prevOk >>
    /\ ClearTick
    /\ steps' = <<>>
    /\ fileBefore' = Absent
    /\ UNCHANGED << environment, mode, watch, lastGood, changed >>

\* The program is started again (by hand, or by cron for --once).
Restart ==
    /\ pc = "exited"
    /\ pc' = "start"
    /\ mode' = "none"
    /\ exit' = NoExit
    /\ ClearTick
    /\ steps' = <<>>
    /\ fileBefore' = Absent
    /\ UNCHANGED << environment, file, across >>

Next ==
    \/ RemoteChange
    \/ Startup
    \/ TickStart
    \/ FetchPage
    \/ Load
    \/ DiffStep
    \/ Notify
    \/ Save
    \/ Sleep
    \/ ExitOnce
    \/ Interrupt
    \/ Restart

Spec == Init /\ [][Next]_vars

\* ----------------------------------------------------------------- claims

\* seq lists the elements of S once each in ascending Python str order.
IsAscendingListOf(seq, S) ==
    /\ Range(seq) = S
    /\ Len(seq) = Cardinality(S)
    /\ \A i, j \in 1..Len(seq) : i < j => LexLess(seq[i], seq[j])

\* The follower set a snapshot file holds (none for a missing file).
SnapshotSet(f) == Range(f.followers)

\* The snapshot file holds exactly the set F.
FileHolds(F) == file.kind = "valid" /\ Range(file.followers) = F

\* The transport the configured method selects received exactly the calls cs.
SentAs(cs) ==
    /\ method = "email" => emailSends = cs /\ webhookSends = <<>>
    /\ method = "webhook" => webhookSends = cs /\ emailSends = <<>>

\* C1: a tick whose fetch failed returns 0, does not call the notifier, does
\* not call save, and leaves the snapshot file as it was.
C1_FetchFailureAbortsTick ==
    (pc = "done" /\ fetchFailed) =>
        /\ ret = 0
        /\ notifyCalls = <<>>
        /\ saveCalls = <<>>
        /\ file = fileBefore

\* C2: with previous snapshot set P and successfully fetched set C, C - P not
\* empty, the tick calls the notifier exactly once, with the elements of
\* C - P in ascending order, and returns |C - P|.
C2_NewFollowersNotifiedOnceSorted ==
    (pc = "done" /\ ~fetchFailed /\ loadSaw \in {"absent", "valid"}
                 /\ current_followers \ SnapshotSet(fileBefore) # {}) =>
        LET N == current_followers \ SnapshotSet(fileBefore) IN
        /\ Len(notifyCalls) = 1
        /\ IsAscendingListOf(notifyCalls[1], N)
        /\ SentAs(notifyCalls)
        /\ ret = Cardinality(N)

C2_Witness ==
    /\ pc = "done"
    /\ ~fetchFailed
    /\ loadSaw = "valid"
    /\ notifyCalls = << << Handle(1), Handle(2) >> >>
    /\ emailSends = notifyCalls
    /\ ret = 2

\* C3: at the end of every tick the snapshot file holds the set returned by
\* the most recent tick whose fetch succeeded (no file if there was none), and
\* a tick whose fetch failed leaves the file as it was.
C3_SnapshotIsLastFetchedSet ==
    (pc = "done" /\ watch = "fetched") =>
        /\ IF lastGood.some THEN FileHolds(lastGood.set) ELSE file = Absent
        /\ fetchFailed => file = fileBefore

\* C4: when the transport fails in a tick whose fetch succeeded, no exception
\* leaves the tick, save_followers is still called with the fetched set (and
\* the file holds it when the write succeeds), and the tick returns
\* |current - previous|.
C4_NotifyFailureDoesNotAbortTick ==
    (pc = "done" /\ ~fetchFailed /\ sendFailed) =>
        /\ ~raised
        /\ saveCalls = << current_followers >>
        /\ saveResult = "ok" => FileHolds(current_followers)
        /\ ret = Cardinality(current_followers \ previous_followers)
        /\ ret > 0

C4_Witness ==
    /\ pc = "done"
    /\ ~fetchFailed
    /\ sendFailed
    /\ saveResult = "ok"
    /\ fileBefore.kind = "valid"
    /\ FileHolds(current_followers)
    /\ ret = 1

\* C5: when a tick has fetched the whole follower set and saved it, and the
\* followers at the endpoint have not changed since that tick started, the
\* next tick returns 0 and dispatches nothing.
C5_SecondTickFindsNothing ==
    (pc = "done" /\ prevOk /\ ~changed) =>
        /\ ret = 0
        /\ notifyCalls = <<>>
        /\ emailSends = <<>>
        /\ webhookSends = <<>>

C5_Witness ==
    /\ pc = "done"
    /\ prevOk
    /\ ~changed
    /\ ~fetchFailed
    /\ loadSaw = "valid"
    /\ Cardinality(current_followers) = 2
    /\ saveResult = "ok"

\* C6: on the first run (no snapshot file) previous is the empty set, the
\* batch is the whole fetched set in ascending order, and the tick returns
\* |current|.
C6_FirstRunReportsEveryFollower ==
    (pc = "done" /\ loadSaw = "absent") =>
        /\ previous_followers = {}
        /\ new_followers = current_followers
        /\ ret = Cardinality(current_followers)
        /\ current_followers # {} =>
            /\ Len(notifyCalls) = 1
            /\ IsAscendingListOf(notifyCalls[1], current_followers)
            /\ SentAs(notifyCalls)

C6_Witness ==
    /\ pc = "done"
    /\ loadSaw = "absent"
    /\ ~fetchFailed
    /\ current_followers = { Handle(1), Handle(2) }
    /\ webhookSends = << << Handle(1), Handle(2) >> >>
    /\ ret = 2

\* C7: no transport is ever handed an empty batch; a tick in which
\* current - previous is empty (also when followers only left) sends nothing,
\* returns 0 and still calls save_followers with current (the file holds it
\* when the write succeeds).
C7_EmptyBatchNeverDispatched ==
    /\ \A i \in 1..Len(emailSends) : emailSends[i] # <<>>
    /\ \A i \in 1..Len(webhookSends) : webhookSends[i] # <<>>
    /\ (pc = "done" /\ ~raised /\ current_followers \ previous_followers = {}) =>
        /\ notifyCalls = <<>>
        /\ emailSends = <<>>
        /\ webhookSends = <<>>
        /\ ret = 0
        /\ saveCalls = << current_followers >>
        /\ saveResult = "ok" => FileHolds(current_followers)

C7_Witness ==
    /\ pc = "done"
    /\ ~fetchFailed
    /\ loadSaw = "valid"
    /\ current_followers # previous_followers
    /\ current_followers \subseteq previous_followers
    /\ current_followers # {}
    /\ emailSends = <<>>
    /\ webhookSends = <<>>
    /\ saveResult = "ok"
    /\ FileHolds(current_followers)

\* C8: after save_followers(F) has written the file, load_previous_followers
\* returns F, whatever the file held before the save: right after the save,
\* and when the next tick loads the file.
C8_SaveThenLoadRoundTrip ==
    /\ (pc = "done" /\ saveResult = "ok") => Loaded(file) = saveCalls[1]
    /\ (lastSaved.some /\ saveResult = "none"
            /\ loadSaw \notin {"none", "unreadable"}) =>
        /\ loadSaw = "valid"
        /\ previous_followers = lastSaved.set

C8_Witness ==
    /\ pc = "diff"
    /\ lastSaved.some
    /\ lastSaved.set = { Handle(1), Handle(2) }
    /\ file.followers = << Handle(2), Handle(1) >>
    /\ previous_followers = lastSaved.set

\* C9: a tick that finds a snapshot file that does not parse does not go on
\* with the empty set as previous and does not notify about every current
\* follower.
C9_CorruptSnapshotNotTreatedAsAbsent ==
    loadSaw = "corrupt" =>
        /\ ~(pc \in {"diff", "notify", "save", "done"} /\ ~raised
                /\ previous_followers = {})
        /\ ~(current_followers # {} /\ Len(notifyCalls) = 1
                /\ Range(notifyCalls[1]) = current_followers)

\* C10: after a save that failed, a load returns the follower set of the
\* snapshot that was valid before the save.
C10_FailedSaveKeepsPreviousSnapshot ==
    (pc = "done" /\ saveResult \in {"open", "partial"}
                 /\ fileBefore.kind = "valid") =>
        Loaded(file) = SnapshotSet(fileBefore)

\* The tick in progress has computed its batch (the diff has run).
BatchKnown == watch = "batch" /\ "diff" \in Range(steps)

\* C11 as stated: a handle that was in the batch of the tick before, whether
\* its dispatch succeeded or failed, and that is still in the fetched set of
\* this tick, is not in the batch of this tick.
C11_NeverNotifiedAgain ==
    BatchKnown =>
        \A h \in lastBatch.batch :
            h \in current_followers => h \notin new_followers

\* C11, amended: a handle that was in the batch of the tick before, whether
\* its dispatch succeeded or failed, and that is still in the fetched set of
\* this tick, is not in the batch of this tick, provided the save_followers
\* of the tick before wrote the snapshot.
C11_NotNotifiedAgainOnceSaved ==
    (BatchKnown /\ lastBatch.saved) =>
        \A h \in lastBatch.batch :
            h \in current_followers => h \notin new_followers

C11_Witness ==
    /\ pc = "done"
    /\ watch = "batch"
    /\ lastBatch.saved
    /\ lastBatch.failed
    /\ lastBatch.batch = { Handle(1), Handle(2) }
    /\ ~fetchFailed
    /\ current_followers = { Handle(1), Handle(2) }
    /\ new_followers = {}
    /\ emailSends = <<>>
    /\ webhookSends = <<>>

\* C12: in run-forever mode the process ends only on a configuration error at
\* startup or on cancellation; a failed fetch, snapshot read, dispatch or
\* snapshot write neither ends the loop nor leaves it: the tick reaches its
\* end, from where the loop sleeps, and from the sleep the next tick starts.
C12_LoopSurvivesRecoverableErrors ==
    mode = "forever" =>
        /\ pc = "exited" =>
            \/ exit.cause = "interrupt"
            \/ exit.cause = "config" /\ exit.at = "start"
        /\ raised => pc = "done"
        /\ pc = "done" => ENABLED Sleep
        /\ pc = "idle" => ENABLED TickStart

C12_Witness ==
    /\ mode = "forever"
    /\ pc = "done"
    /\ fetchFailed
    /\ sendFailed
    /\ saveResult = "partial"
    /\ ENABLED Sleep

\* The tick in progress has handed a batch to a transport and has not yet
\* called save_followers.
DispatchedNotPersisted ==
    /\ emailSends # <<>> \/ webhookSends # <<>>
    /\ saveCalls = <<>>

\* C13: cancellation of the continuous loop never ends a tick that has
\* dispatched a notification and has not persisted the snapshot: the process
\* is not stopped by the interrupt between the dispatch and the save.
C13_CancellationOnlyBetweenTicks ==
    [][(pc # "exited" /\ exit'.cause = "interrupt")
            => ~DispatchedNotPersisted]_vars

\* C14: in run-once mode the exit status of a tick whose fetch succeeded is 0,
\* whatever the number of new followers.
C14_RunOnceExitStatusZero ==
    [][(mode = "once" /\ pc = "done" /\ pc' = "exited" /\ ~fetchFailed)
            => exit'.status = 0]_vars

\* A setting that the selected method requires is missing from the
\* environment: the token, the account handle, one of from, password and to
\* for email, the URL for webhook.
RequiredMissing ==
    \/ "GITHUB_TOKEN" \notin settings
    \/ "GITHUB_USERNAME" \notin settings
    \/ /\ method = "email"
       /\ \/ "EMAIL_FROM" \notin settings
          \/ "EMAIL_PASSWORD" \notin settings
          \/ "EMAIL_TO" \notin settings
    \/ /\ method = "webhook"
       /\ "WEBHOOK_URL" \notin settings

\* C15: when a required setting is missing, the start of the program ends in
\* a configuration error with a non-zero exit status, and no tick ever runs:
\* no request, no dispatch, no call of save_followers, no snapshot file.
C15_MissingSettingPreventsStartup ==
    RequiredMissing =>
        /\ pc \in {"start", "exited"}
        /\ pc = "exited" => exit.cause = "config" /\ exit.status # 0
        /\ steps = <<>>
        /\ fetchLog = <<>>
        /\ notifyCalls = <<>>
        /\ emailSends = <<>>
        /\ webhookSends = <<>>
        /\ saveCalls = <<>>
        /\ file = Absent

C15_Witness ==
    /\ pc = "exited"
    /\ mode = "forever"
    /\ exit.cause = "config"
    /\ method = "email"
    /\ settings = Settings \ {"WEBHOOK_URL", "EMAIL_TO"}

\* C16: the self-test ends with status 0 exactly when the validation of the
\* settings passed and the connectivity fetch succeeded; it ends with a
\* non-zero status when either failed.
C16_SelfTestReportsFailures ==
    (mode = "test" /\ pc = "exited") =>
        (exit.status = 0 <=> (~RequiredMissing /\ ~fetchFailed))

\* The place of a step in the order of check_for_new_followers.
StepOrder(s) ==
    CASE s = "fetch"  -> 1
      [] s = "load"   -> 2
      [] s = "diff"   -> 3
      [] s = "notify" -> 4
      [] s = "save"   -> 5

\* C17: the steps a tick has taken are, in this order and at most once each,
\* fetch, load, diff, notify, save; a tick that has ended ended with its save
\* or aborted; and a tick starts only when no tick is in progress, in
\* run-once and in run-forever mode.
C17_StepsOnceInOrderNoOverlap ==
    /\ \A i, j \in 1..Len(steps) :
        i < j => StepOrder(steps[i]) < StepOrder(steps[j])
    /\ steps # <<>> => steps[1] = "fetch"
    /\ (pc \in TickPcs /\ mode # "test") =>
        /\ steps # <<>>
        /\ pc # "done" => StepOrder(pc) >= StepOrder(steps[Len(steps)])
        /\ pc \notin {"done", "fetch"} =>
               StepOrder(pc) > StepOrder(steps[Len(steps)])
        /\ pc = "done" =>
            IF raised THEN steps = << "fetch", "load" >>
            ELSE steps \in { << "fetch", "load", "diff", "notify", "save" >>,
                             << "fetch", "load", "diff", "save" >> }
    /\ pc \notin TickPcs => steps = <<>>
    /\ ENABLED TickStart => pc = "idle" /\ steps = <<>> /\ saveCalls = <<>>

C17_Witness ==
    /\ pc = "done"
    /\ mode = "forever"
    /\ steps = << "fetch", "load", "diff", "notify", "save" >>
    /\ Len(notifyCalls) = 1
    /\ Len(saveCalls) = 1
    /\ sendFailed

\* C18: once startup validation has passed, every non-empty batch handed to
\* notify_new_followers goes to exactly one of the two transports, the email
\* send or the webhook send, never to neither.
C18_BatchGoesToExactlyOneTransport ==
    (pc \in {"save", "done"} /\ notifyCalls # <<>>) =>
        \/ emailSends = notifyCalls /\ webhookSends = <<>>
        \/ webhookSends = notifyCalls /\ emailSends = <<>>

\* C19: no step of the self-test changes the snapshot file, calls
\* save_followers, or calls the notifier or a transport.
C19_SelfTestIsReadOnly ==
    [][mode = "test" =>
            /\ file' = file
            /\ saveCalls' = <<>>
            /\ notifyCalls' = <<>>
            /\ emailSends' = <<>>
            /\ webhookSends' = <<>>]_vars

C19_Witness ==
    /\ mode = "test"
    /\ pc = "exited"
    /\ exit.cause = "returned"
    /\ ~fetchFailed
    /\ file.kind = "valid"
    /\ current_followers \ Loaded(file) # {}
    /\ saveCalls = <<>>
    /\ emailSends = <<>>
    /\ webhookSends = <<>>

\* The logins of the pages received before the request that ended the fetch.
PagesReceived == UNION { fetchLog[i].data : i \in 1..Len(fetchLog) }

\* The request was answered with an empty page, or failed.
EndsFetch(r) == ~r.ok \/ r.data = {}

\* C20: get_current_followers asks for pages 1, 2, ... in order, goes on
\* while non-empty pages come, and returns at the first empty page or failed
\* request, without raising, the union of the pages received before it (the
\* empty set if the first request fails).
C20_FetchReturnsUnionOfPages ==
    /\ \A i \in 1..Len(fetchLog) : fetchLog[i].page = i
    /\ \A i \in 1..(Len(fetchLog) - 1) : ~EndsFetch(fetchLog[i])
    /\ pc = "fetch" =>
        /\ \A i \in 1..Len(fetchLog) : ~EndsFetch(fetchLog[i])
        /\ page = Len(fetchLog) + 1
        /\ followers = PagesReceived
    /\ (pc # "fetch" /\ fetchLog # <<>>) =>
        /\ EndsFetch(fetchLog[Len(fetchLog)])
        /\ fetchFailed = ~fetchLog[Len(fetchLog)].ok
        /\ current_followers = PagesReceived
        /\ ~raised
        /\ pc = IF mode = "test" THEN "exited" ELSE "load"
    /\ pc = "load" => fetchLog # <<>>

C20_Witness ==
    /\ pc = "load"
    /\ Len(fetchLog) = 3
    /\ ~fetchLog[3].ok
    /\ fetchLog[1].data # fetchLog[2].data
    /\ current_followers = { Handle(1), Handle(2) }

====
